---- MODULE Spec2Model ----
(***************************************************************************)
(* EOTS (Schnorr with a published nonce) over a secp256k1-shaped curve:    *)
(* signEOTS and verifyEOTSSignature of src/lib/eots.ts and                 *)
(* recoverPrivateKey / modInverse / calculateChallenge of                  *)
(* src/lib/key-recovery.ts.                                                *)
(*                                                                         *)
(* The 256-bit curve is scaled down to y^2 = x^3 + 7 over F_43, whose      *)
(* group has prime order 31 (secp256k1 has the same equation, p = 3 mod 4, *)
(* prime order n < p < 2^256).  A 32-byte value becomes a 1-byte value and *)
(* a byte is two digits of an 8-letter "hex" alphabet, so that n < p < 64  *)
(* = 2^6 plays the part of n < p < 2^256 and every encoding (toString,     *)
(* padStart, Buffer.from(..,"hex"), BigInt("0x"..)) is computed digit by   *)
(* digit.  SHA-256 is a fixed function from byte strings to one byte: its *)
(* values range over all of [0, 2^6), so that challenges of 0, of n and    *)
(* above, and challenges equal modulo n all occur, as the 256-bit hash     *)
(* allows them to.                                                         *)
(***************************************************************************)
EXTENDS Integers, Sequences, FiniteSets, TLC

-----------------------------------------------------------------------------
(* Characters, hex strings, buffers                                        *)

\* the lowercase digits, in value order ("0".."9","a".."f" in the source)
HexDigits == <<"0", "1", "2", "3", "4", "5", "a", "b">>
\* the digits that have an upper-case form, with that form
UpperOf == [c \in {"a", "b"} |-> IF c = "a" THEN "A" ELSE "B"]
\* a character that is no hex digit, and the sign BigInt.toString can emit
OtherChars == {"z", "-"}

HexBase == Len(HexDigits)
\* bytes of a key, nonce, coordinate, scalar or digest (32 in the source)
WordBytes == 1
\* characters of their hex form (64 in the source)
HexLen == 2 * WordBytes
ByteMod == HexBase * HexBase
\* number of values of a WordBytes-byte integer (2^256 in the source)
WordMod == ByteMod

LowerChars == {HexDigits[i] : i \in 1..HexBase}
UpperChars == {UpperOf[c] : c \in DOMAIN UpperOf}
Chars == LowerChars \cup UpperChars \cup OtherChars

\* String.prototype.toLowerCase on one character
ToLower(c) == IF c \in UpperChars THEN CHOOSE l \in DOMAIN UpperOf : UpperOf[l] = c ELSE c

\* [0-9a-f] under the i flag
IsHexChar(c) == ToLower(c) \in LowerChars

\* value of a hex digit
HexVal(c) == (CHOOSE i \in 1..HexBase : HexDigits[i] = ToLower(c)) - 1

\* the pattern without the i flag
hexPatternLower(str) == Len(str) = HexLen /\ \A i \in 1..Len(str) : str[i] \in LowerChars

\* /^[0-9a-f]{64}$/i.test(str)
hexPattern(str) == Len(str) = HexLen /\ \A i \in 1..Len(str) : IsHexChar(str[i])

\* BigInt("0x" + str) for a str of hex digits
RECURSIVE ParseHex(_)
ParseHex(str) ==
    IF str = << >> THEN 0
    ELSE ParseHex(SubSeq(str, 1, Len(str) - 1)) * HexBase + HexVal(str[Len(str)])

\* BigInt.prototype.toString(16) of a non-negative value
RECURSIVE DigitsOf(_)
DigitsOf(v) ==
    IF v < HexBase THEN <<HexDigits[v + 1]>>
    ELSE Append(DigitsOf(v \div HexBase), HexDigits[(v % HexBase) + 1])

\* BigInt.prototype.toString(16): a negative value prints as "-" and |v|
ToString16(v) == IF v < 0 THEN <<"-">> \o DigitsOf(0 - v) ELSE DigitsOf(v)

\* String.prototype.padStart(len, "0"): pads, never truncates
RECURSIVE padStart(_, _)
padStart(str, len) == IF Len(str) >= len THEN str ELSE padStart(<<"0">> \o str, len)

\* v.toString(16).padStart(64, "0")
ToHex(v) == padStart(ToString16(v), HexLen)

\* Buffer.from(str, "hex"): decodes pairs of digits and stops at the first
\* pair that is not two hex digits (an odd trailing character is dropped)
RECURSIVE BufferFromHex(_)
BufferFromHex(str) ==
    IF Len(str) < 2 \/ ~IsHexChar(str[1]) \/ ~IsHexChar(str[2]) THEN << >>
    ELSE <<HexVal(str[1]) * HexBase + HexVal(str[2])>> \o BufferFromHex(SubSeq(str, 3, Len(str)))

\* Buffer.prototype.toString("hex"): two lowercase digits per byte
RECURSIVE BufferToHex(_)
BufferToHex(buf) ==
    IF buf = << >> THEN << >>
    ELSE <<HexDigits[(buf[1] \div HexBase) + 1], HexDigits[(buf[1] % HexBase) + 1]>>
         \o BufferToHex(Tail(buf))

\* the UTF-8 bytes of a string (one byte per character of the alphabet)
CharCode(c) ==
    IF c \in LowerChars THEN 10 + HexVal(c)
    ELSE IF c \in UpperChars THEN 20 + HexVal(c)
    ELSE IF c = "z" THEN 30 ELSE 31

RECURSIVE Utf8(_)
Utf8(str) == IF str = << >> THEN << >> ELSE <<CharCode(str[1])>> \o Utf8(Tail(str))

\* createHash("sha256").update(bytes).digest(): a fixed function from byte
\* strings to WordBytes bytes
RECURSIVE ShaState(_)
ShaState(buf) ==
    IF buf = << >> THEN 37
    ELSE LET h == ShaState(SubSeq(buf, 1, Len(buf) - 1))
             b == buf[Len(buf)]
         IN  ((h + b + 1) * (h + 2 * b + 3) + 5 * h + 11) % WordMod

Sha256(buf) == <<ShaState(buf)>>

\* BigInt("0x" + buf.toString("hex"))
BufferToInt(buf) == ParseHex(BufferToHex(buf))

\* bigint %: the remainder has the sign of the dividend
JsRem(a, b) == IF a >= 0 THEN a % b ELSE 0 - ((0 - a) % b)

\* bigint /: truncates toward zero
JsDiv(a, b) ==
    LET q == (IF a >= 0 THEN a ELSE 0 - a) \div (IF b >= 0 THEN b ELSE 0 - b)
    IN  IF (a >= 0) = (b >= 0) THEN q ELSE 0 - q

-----------------------------------------------------------------------------
(* Outcomes: a call returns a value or throws an Error with a message      *)

Ok(v) == [ok |-> TRUE, value |-> v]
Throw(msg) == [ok |-> FALSE, error |-> msg]

-----------------------------------------------------------------------------
(* The curve group (@noble/secp256k1: ProjectivePoint, CURVE)              *)

\* the field prime (CURVE.p)
P_FIELD == 43
\* the group order (CURVE.n, CURVE_N)
CURVE_N == 31
\* the constant of the curve equation y^2 = x^3 + b (CURVE.b)
CURVE_B == 7

\* the point at infinity; its affine form is (0, 0), which is not on the curve
ZERO == [x |-> 0, y |-> 0]

\* y^2 = x^3 + b
IsOnCurve(x, y) == (y * y) % P_FIELD = (x * x * x + CURVE_B) % P_FIELD

\* the generator (Point.BASE): the point of least x, with even y
BASE ==
    LET x == CHOOSE x0 \in 1..(P_FIELD - 1) :
                 /\ \E y \in 1..(P_FIELD - 1) : IsOnCurve(x0, y)
                 /\ \A x1 \in 1..(x0 - 1) : \A y \in 1..(P_FIELD - 1) : ~IsOnCurve(x1, y)
    IN  [x |-> x, y |-> CHOOSE y \in 1..(P_FIELD - 1) : IsOnCurve(x, y) /\ y % 2 = 0]

\* the inverse of a non-zero field element
FieldInv == [a \in 1..(P_FIELD - 1) |-> CHOOSE b \in 1..(P_FIELD - 1) : (a * b) % P_FIELD = 1]

\* a mod p, for any integer a
FieldMod(a) == ((a % P_FIELD) + P_FIELD) % P_FIELD

\* Point.add (complete: handles the point at infinity, doubling and inverses)
add(A, B) ==
    IF A = ZERO THEN B
    ELSE IF B = ZERO THEN A
    ELSE IF A.x = B.x /\ A.y # B.y THEN ZERO
    ELSE IF A.x = B.x /\ A.y = 0 THEN ZERO
    ELSE LET l == IF A.x = B.x
                  THEN FieldMod(3 * A.x * A.x * FieldInv[FieldMod(2 * A.y)])
                  ELSE FieldMod((B.y - A.y) * FieldInv[FieldMod(B.x - A.x)])
             x == FieldMod(l * l - A.x - B.x)
         IN  [x |-> x, y |-> FieldMod(l * (A.x - x) - A.y)]

\* double-and-add, for k >= 0
RECURSIVE ScalarMul(_, _)
ScalarMul(A, k) ==
    IF k = 0 THEN ZERO
    ELSE LET half == ScalarMul(add(A, A), k \div 2)
         IN  IF k % 2 = 1 THEN add(half, A) ELSE half

\* equals, comparing the x-coordinates only
equalsX(A, B) == A.x = B.x

\* Point.equals
equals(A, B) == A.x = B.x /\ A.y = B.y

\* a valid scalar: 0 < k < n
ge(k) == 0 < k /\ k < CURVE_N

\* Point.multiply(k): throws unless 0 < k < n
multiply(A, k) == IF ge(k) THEN Ok(ScalarMul(A, k)) ELSE Throw("invalid scalar")

\* Point.fromPrivateKey(bytes): throws unless 0 < key < n
fromPrivateKey(bytes) ==
    LET k == BufferToInt(bytes)
    IN  IF ge(k) THEN Ok(ScalarMul(BASE, k)) ELSE Throw("private key out of range")

\* the decompression under the odd-y tag ("03" + hex)
fromHexOdd(hex) ==
    LET x == ParseHex(hex)
    IN  IF ~(0 < x /\ x < P_FIELD) THEN Throw("Point hex invalid: x not FE")
        ELSE IF ~\E y \in 0..(P_FIELD - 1) : IsOnCurve(x, y) THEN Throw("sqrt invalid")
        ELSE Ok([x |-> x, y |-> CHOOSE y \in 0..(P_FIELD - 1) : IsOnCurve(x, y) /\ y % 2 = 1])

\* Point.fromHex("02" + hex): the point of even y with that x; throws when
\* x is not a field element in (0, p) or x^3 + b is no square
fromHexEven(hex) ==
    LET x == ParseHex(hex)
    IN  IF ~(0 < x /\ x < P_FIELD) THEN Throw("Point hex invalid: x not FE")
        ELSE IF ~\E y \in 0..(P_FIELD - 1) : IsOnCurve(x, y) THEN Throw("sqrt invalid")
        ELSE Ok([x |-> x, y |-> CHOOSE y \in 0..(P_FIELD - 1) : IsOnCurve(x, y) /\ y % 2 = 0])

-----------------------------------------------------------------------------
(* src/lib/eots.ts                                                         *)

\* the domain-separation tag (32 bytes in the source)
BIP340_TAG == <<29>>

\* step 1 with the point negated and the key bytes left as passed
signStep1KeepsKey(privateKey) ==
    LET P0 == fromPrivateKey(privateKey)
    IN  IF ~P0.ok THEN P0
        ELSE IF P0.value.y % 2 = 1
        THEN LET negKey == BufferFromHex(ToHex(CURVE_N - BufferToInt(privateKey)))
                 P1 == fromPrivateKey(negKey)
             IN  IF ~P1.ok THEN P1 ELSE Ok([privateKey |-> privateKey, P |-> P1.value])
        ELSE Ok([privateKey |-> privateKey, P |-> P0.value])

\* step 1 of signEOTS: the key and its point, negated when y is odd.
\* Yields [privateKey, P] or the error of Point.fromPrivateKey.
signStep1(privateKey) ==
    LET P0 == fromPrivateKey(privateKey)
    IN  IF ~P0.ok THEN P0
        ELSE IF P0.value.y % 2 = 1
        THEN LET d_original == BufferToInt(privateKey)
                 d_neg == CURVE_N - d_original
                 dNegHex == ToHex(d_neg)
                 negKey == BufferFromHex(dNegHex)
                 P1 == fromPrivateKey(negKey)
             IN  IF ~P1.ok THEN P1 ELSE Ok([privateKey |-> negKey, P |-> P1.value])
        ELSE Ok([privateKey |-> privateKey, P |-> P0.value])

\* step 2 with the point negated and the scalar left as drawn
signStep2KeepsScalar(nonce) ==
    LET a0 == BufferToInt(nonce)
        R0 == multiply(BASE, a0)
    IN  IF ~R0.ok THEN R0
        ELSE IF R0.value.y % 2 = 1
        THEN LET R1 == multiply(BASE, CURVE_N - a0)
             IN  IF ~R1.ok THEN R1 ELSE Ok([a |-> a0, R |-> R1.value])
        ELSE Ok([a |-> a0, R |-> R0.value])

\* step 2 of signEOTS: the nonce scalar and its point, negated when y is odd.
\* Yields [a, R] or the error of Point.BASE.multiply.
signStep2(nonce) ==
    LET a0 == BufferToInt(nonce)
        R0 == multiply(BASE, a0)
    IN  IF ~R0.ok THEN R0
        ELSE IF R0.value.y % 2 = 1
        THEN LET a1 == CURVE_N - a0
                 R1 == multiply(BASE, a1)
             IN  IF ~R1.ok THEN R1 ELSE Ok([a |-> a1, R |-> R1.value])
        ELSE Ok([a |-> a0, R |-> R0.value])

\* step 3 of signEOTS, first half: a message of 64 characters is taken for
\* a hex hash, any other is hashed
signMessageHash(message) ==
    IF Len(message) = HexLen THEN message ELSE BufferToHex(Sha256(Utf8(message)))

\* step 3 of signEOTS, second half: e = SHA256(tag || tag || r || pubKey || message)
signChallenge(rHex, pubKeyHex, messageHash) ==
    BufferToInt(Sha256(BIP340_TAG \o BIP340_TAG \o BufferFromHex(rHex)
                       \o BufferFromHex(pubKeyHex) \o BufferFromHex(messageHash)))

\* signEOTS(privateKey, message, choosenNonce); choosenNonce is
\* [given |-> FALSE] for undefined, and random is what randomBytes(32) yields
signEOTS(privateKey, message, choosenNonce, random) ==
    IF Len(privateKey) # WordBytes THEN Throw("Private key must be 32 bytes")
    ELSE IF choosenNonce.given /\ Len(choosenNonce.bytes) # WordBytes
    THEN Throw("Nonce must be 32 bytes")
    ELSE
    LET nonce == IF choosenNonce.given THEN choosenNonce.bytes ELSE random
        k == signStep1(privateKey)
    IN  IF ~k.ok THEN k ELSE
    LET pubKeyHex == ToHex(k.value.P.x)
        r == signStep2(nonce)
    IN  IF ~r.ok THEN r ELSE
    LET rHex == ToHex(r.value.R.x)
        e == signChallenge(rHex, pubKeyHex, signMessageHash(message))
        d == BufferToInt(k.value.privateKey)
        s == JsRem(r.value.a + e * d, CURVE_N)
        sHex == ToHex(s)
    IN  Ok([publicKey |-> pubKeyHex, publicNonce |-> rHex, s |-> sHex])

\* verifyEOTSSignature: the message hash
verifyMessageHash(message) ==
    IF Len(message) = HexLen THEN message ELSE BufferToHex(Sha256(Utf8(message)))

\* verifyEOTSSignature: e = SHA256(tag || tag || r || pubKey || message)
verifyChallenge(publicNonceHex, publicKeyHex, messageHash) ==
    BufferToInt(Sha256(BIP340_TAG \o BIP340_TAG \o BufferFromHex(publicNonceHex)
                       \o BufferFromHex(publicKeyHex) \o BufferFromHex(messageHash)))

\* the range check without its lower end
sOutOfRangeAbove(s) == s >= CURVE_N

\* verifyEOTSSignature: the range check on s
sOutOfRange(s) == s >= CURVE_N \/ s <= 0

\* verifyEOTSSignature(publicKeyHex, publicNonceHex, message, sHex)
verifyEOTSSignature(publicKeyHex, publicNonceHex, message, sHex) ==
    IF ~hexPattern(publicKeyHex) THEN Throw("Invalid public key format")
    ELSE IF ~hexPattern(publicNonceHex) THEN Throw("Invalid public nonce format")
    ELSE IF ~hexPattern(sHex) THEN Throw("Invalid signature format")
    ELSE
    LET e == verifyChallenge(publicNonceHex, publicKeyHex, verifyMessageHash(message))
        s == ParseHex(sHex)
    IN  IF sOutOfRange(s) THEN Ok(FALSE) ELSE
    LET sG == multiply(BASE, s)
    IN  IF ~sG.ok THEN sG ELSE
    LET P == fromHexEven(publicKeyHex)
    IN  IF ~P.ok THEN P ELSE
    LET R == fromHexEven(publicNonceHex)
    IN  IF ~R.ok THEN R ELSE
    LET eP == multiply(P.value, e)
    IN  IF ~eP.ok THEN eP ELSE
    Ok(equals(sG.value, add(R.value, eP.value)))

-----------------------------------------------------------------------------
(* src/lib/key-recovery.ts                                                 *)

\* calculateChallenge(publicNonceHex, publicKeyHex, messageHex)
calculateChallenge(publicNonceHex, publicKeyHex, messageHex) ==
    BufferToInt(Sha256(BIP340_TAG \o BIP340_TAG \o BufferFromHex(publicNonceHex)
                       \o BufferFromHex(publicKeyHex) \o BufferFromHex(messageHex)))

\* the loop of modInverse: (t, newT, r, newR) until newR = 0; yields [t, r]
RECURSIVE modInverseLoop(_, _, _, _)
modInverseLoop(t, newT, r, newR) ==
    IF newR = 0 THEN [t |-> t, r |-> r]
    ELSE LET quotient == JsDiv(r, newR)
         IN  modInverseLoop(newT, t - quotient * newT, newR, r - quotient * newR)

\* modInverse(a, n)
modInverse(a, n) ==
    LET end == modInverseLoop(0, 1, n, JsRem(a, n))
    IN  IF end.r > 1 THEN Throw("a is not invertible modulo n")
        ELSE IF end.t < 0 THEN Ok(end.t + n)
        ELSE Ok(end.t)

\* recoverPrivateKey: numerator = (s1 - s2 + CURVE_N) % CURVE_N
recoverNumerator(s1, s2) == JsRem(s1 - s2 + CURVE_N, CURVE_N)

\* recoverPrivateKey: denominator = (e1 - e2 + CURVE_N) % CURVE_N
recoverDenominator(e1, e2) == JsRem(e1 - e2 + CURVE_N, CURVE_N)

\* no singularity check
challengesEqualNever(denominator) == FALSE

\* recoverPrivateKey: the singularity check on the denominator
challengesEqual(denominator) == denominator = 0

\* recoverPrivateKey(s1Hex, s2Hex, msg1Hex, msg2Hex, pubKeyHex, pubNonceHex)
recoverPrivateKey(s1Hex, s2Hex, msg1Hex, msg2Hex, pubKeyHex, pubNonceHex) ==
    IF ~\A h \in {s1Hex, s2Hex, msg1Hex, msg2Hex, pubKeyHex, pubNonceHex} : hexPattern(h)
    THEN Throw("All inputs must be 32-byte hex strings")
    ELSE
    LET e1 == calculateChallenge(pubNonceHex, pubKeyHex, msg1Hex)
        e2 == calculateChallenge(pubNonceHex, pubKeyHex, msg2Hex)
        s1 == ParseHex(s1Hex)
        s2 == ParseHex(s2Hex)
        numerator == recoverNumerator(s1, s2)
        denominator == recoverDenominator(e1, e2)
    IN  IF challengesEqual(denominator)
        THEN Throw("Cannot recover key: challenges are equal")
        ELSE
        LET invDenom == modInverse(denominator, CURVE_N)
        IN  IF ~invDenom.ok THEN invDenom
            ELSE Ok(ToHex(JsRem(numerator * invDenom.value, CURVE_N)))

-----------------------------------------------------------------------------
(* Inputs                                                                  *)

\* message digests 0..MaxDigest are signed and recovered from
MaxDigest == 2
\* x-coordinates 0..MaxCoordinate are passed to verify and recover directly
MaxCoordinate == 7

\* every buffer of WordBytes bytes
Words == {<<b>> : b \in 0..(ByteMod - 1)}
\* every 64-digit lowercase hex string
HexWords == {ToHex(v) : v \in 0..(WordMod - 1)}
\* buffers of a wrong length
BadBuffers == {<< >>, <<1, 2>>}
\* strings that fail the 64-hex pattern: too short, too long, a foreign character
BadHex == {<<"0">>, <<"0", "0", "0">>, <<"0", "z">>}
\* hex strings with upper-case digits
UpperHex == {<<"0", "A">>, <<"B", "a">>}

KeyInputs == Words \cup BadBuffers
\* the optional nonce argument: undefined, or a buffer
NonceInputs == {[given |-> FALSE, bytes |-> << >>]}
               \cup {[given |-> TRUE, bytes |-> b] : b \in Words \cup BadBuffers}

\* 64-hex digests
Digests == {ToHex(v) : v \in 0..MaxDigest}
\* other messages: a short text, a 64-character text that is not hex, a
\* 64-digit upper-case hex string
RawMessages == {<<"z">>, <<"0", "z">>, <<"0", "B">>}
Messages == Digests \cup RawMessages

\* x-coordinates passed directly: on the curve, off the curve, zero
Coordinates == {ToHex(v) : v \in 0..MaxCoordinate}
\* scalars passed directly: the corners of the range checks
Scalars == {ToHex(v) : v \in {0, 1, CURVE_N - 1, CURVE_N, WordMod - 1}}

\* the digest a caller of recoverPrivateKey passes for a message it signed:
\* the message itself when it is a 64-hex digest, else its SHA-256
callerDigest(message) ==
    IF hexPattern(message) THEN message ELSE BufferToHex(Sha256(Utf8(message)))

-----------------------------------------------------------------------------
(* State: the calls made so far and what they returned                     *)

VARIABLES
    pc,          \* what has been called: "start", "signed", "signedTwice", ...
    privateKey,  \* the key buffer passed to signEOTS
    nonce,       \* the nonce buffer signEOTS used (passed, or drawn at random)
    message1,    \* the message of the first signature
    message2,    \* the message of the second signature
    sig1,        \* outcome of the first signEOTS
    sig2,        \* outcome of the second signEOTS, same key and nonce
    args,        \* the arguments of the last verify / recover call
    result,      \* outcome of the verify / recover call
    tampered     \* outcome of verifying sig1 with another s

vars == <<pc, privateKey, nonce, message1, message2, sig1, sig2, args, result, tampered>>

None == Throw("(not called)")

Init ==
    /\ pc = "start"
    /\ privateKey = << >>
    /\ nonce = << >>
    /\ message1 = << >>
    /\ message2 = << >>
    /\ sig1 = None
    /\ sig2 = None
    /\ args = << >>
    /\ result = None
    /\ tampered = None

\* signEOTS(key, message, nonce?) with the message drawn from messages
Sign(messages) ==
    /\ pc = "start"
    /\ \E key \in KeyInputs, message \in messages, choosenNonce \in NonceInputs :
         \E random \in (IF choosenNonce.given THEN {<< >>} ELSE Words) :
            /\ privateKey' = key
            /\ nonce' = IF choosenNonce.given THEN choosenNonce.bytes ELSE random
            /\ message1' = message
            /\ sig1' = signEOTS(key, message, choosenNonce, random)
    /\ pc' = "signed"
    /\ UNCHANGED <<message2, sig2, args, result, tampered>>

Sign1 == Sign(Messages)

SignDigest == Sign(Digests)

\* signEOTS(key, another message, the same nonce)
Sign2 ==
    /\ pc = "signed"
    /\ sig1.ok
    /\ \E message \in Messages :
            /\ message2' = message
            /\ sig2' = signEOTS(privateKey, message, [given |-> TRUE, bytes |-> nonce], << >>)
    /\ pc' = "signedTwice"
    /\ UNCHANGED <<privateKey, nonce, message1, sig1, args, result, tampered>>

\* verifyEOTSSignature(sig.publicKey, sig.publicNonce, message, sig.s)
Verify ==
    /\ pc = "signed"
    /\ sig1.ok
    /\ args' = <<sig1.value.publicKey, sig1.value.publicNonce, message1, sig1.value.s>>
    /\ result' = verifyEOTSSignature(sig1.value.publicKey, sig1.value.publicNonce,
                                     message1, sig1.value.s)
    /\ pc' = "verified"
    /\ UNCHANGED <<privateKey, nonce, message1, message2, sig1, sig2, tampered>>

\* after a signature verified: verifyEOTSSignature with s replaced
Tamper ==
    /\ pc = "verified"
    /\ result = Ok(TRUE)
    /\ \E sHex \in HexWords \cup UpperHex :
            /\ args' = <<sig1.value.publicKey, sig1.value.publicNonce, message1, sHex>>
            /\ tampered' = verifyEOTSSignature(sig1.value.publicKey, sig1.value.publicNonce,
                                               message1, sHex)
    /\ pc' = "tampered"
    /\ UNCHANGED <<privateKey, nonce, message1, message2, sig1, sig2, result>>

\* recoverPrivateKey(sig1.s, sig2.s, digest1, digest2, sig1.publicKey, sig1.publicNonce)
Recover ==
    /\ pc = "signedTwice"
    /\ sig2.ok
    /\ args' = <<sig1.value.s, sig2.value.s, callerDigest(message1), callerDigest(message2),
                 sig1.value.publicKey, sig1.value.publicNonce>>
    /\ result' = recoverPrivateKey(sig1.value.s, sig2.value.s,
                                   callerDigest(message1), callerDigest(message2),
                                   sig1.value.publicKey, sig1.value.publicNonce)
    /\ pc' = "recovered"
    /\ UNCHANGED <<privateKey, nonce, message1, message2, sig1, sig2, tampered>>

\* verifyEOTSSignature on arguments of the caller's choosing
VerifyCall ==
    /\ pc = "start"
    /\ \E publicKeyHex \in Coordinates \cup BadHex \cup UpperHex,
          publicNonceHex \in Coordinates \cup BadHex \cup UpperHex,
          message \in Messages,
          sHex \in HexWords \cup BadHex \cup UpperHex :
            /\ args' = <<publicKeyHex, publicNonceHex, message, sHex>>
            /\ result' = verifyEOTSSignature(publicKeyHex, publicNonceHex, message, sHex)
    /\ pc' = "verifyCalled"
    /\ UNCHANGED <<privateKey, nonce, message1, message2, sig1, sig2, tampered>>

\* recoverPrivateKey on arguments of the caller's choosing
RecoverCall ==
    /\ pc = "start"
    /\ \E s1Hex \in HexWords \cup {<<"0", "z">>},
          s2Hex \in Scalars \cup {<<"0", "z">>, <<"0", "A">>},
          msg1Hex \in Digests \cup {<<"0", "z">>, <<"0", "B">>},
          msg2Hex \in Digests \cup {<<"0", "z">>, <<"0", "B">>},
          pubKeyHex \in {ToHex(BASE.x), <<"0">>},
          pubNonceHex \in Coordinates \cup {<<"0", "0", "0">>} :
            /\ args' = <<s1Hex, s2Hex, msg1Hex, msg2Hex, pubKeyHex, pubNonceHex>>
            /\ result' = recoverPrivateKey(s1Hex, s2Hex, msg1Hex, msg2Hex, pubKeyHex, pubNonceHex)
    /\ pc' = "recoverCalled"
    /\ UNCHANGED <<privateKey, nonce, message1, message2, sig1, sig2, tampered>>

\* sign, then verify the signature, or sign again with the same nonce and recover
Next == Sign1 \/ Sign2 \/ Verify \/ Recover

Spec == Init /\ [][Next]_vars

\* sign a digest, verify the signature, then verify it with every other s
NextTamper == SignDigest \/ Verify \/ Tamper

SpecTamper == Init /\ [][NextTamper]_vars

\* verifyEOTSSignature as a function of its arguments
NextVerify == VerifyCall

SpecVerify == Init /\ [][NextVerify]_vars

\* recoverPrivateKey as a function of its arguments
NextRecover == RecoverCall

SpecRecover == Init /\ [][NextRecover]_vars

-----------------------------------------------------------------------------
(* Vocabulary of the properties                                            *)

\* a string of exactly 64 hex digits, of either case
Matches64Hex(str) ==
    /\ Len(str) = HexLen
    /\ \A i \in 1..Len(str) : str[i] \in LowerChars \cup UpperChars

\* a scalar of [1, n-1]
InOrder(k) == 1 <= k /\ k <= CURVE_N - 1

\* the least non-negative residue of any integer
Residue(a) == ((a % CURVE_N) + CURVE_N) % CURVE_N

\* k*G has an even y
EvenY(k) == ScalarMul(BASE, k).y % 2 = 0

\* the scalar after even-y normalization: k, or n - k when k*G has an odd y
Normalized(k) == IF EvenY(k) THEN k ELSE CURVE_N - k

\* the integers in the key and nonce buffers of the first signature
keyInt == BufferToInt(privateKey)
nonceInt == BufferToInt(nonce)

\* the challenge the verifier derives for the first signature
sigChallenge ==
    verifyChallenge(sig1.value.publicNonce, sig1.value.publicKey, verifyMessageHash(message1))

\* the two challenges of a recoverPrivateKey call
recChallenge1 == calculateChallenge(args[6], args[5], args[3])
recChallenge2 == calculateChallenge(args[6], args[5], args[4])

\* all six arguments of a recoverPrivateKey call are 64-hex strings
recArgsHex == \A i \in 1..6 : Matches64Hex(args[i])

\* a message whose digest is the same for the signer and for the caller of
\* recoverPrivateKey: a 64-hex digest, or a text of another length
PlainMessage(m) == Matches64Hex(m) \/ Len(m) # HexLen

-----------------------------------------------------------------------------
(* Properties                                                              *)

C2_NonceReuseRecovery ==
    pc = "recovered" /\ Matches64Hex(message1) /\ Matches64Hex(message2)
        /\ BufferFromHex(message1) # BufferFromHex(message2)
        /\ Residue(recChallenge1) # Residue(recChallenge2)
    => result = Ok(ToHex(Normalized(keyInt)))

\* the recovery is regular: the messages are plain and differ, and the
\* denominator (e1 - e2 + n) % n is positive
RegularRecovery ==
    /\ pc = "recovered"
    /\ PlainMessage(message1) /\ PlainMessage(message2)
    /\ message1 # message2
    /\ recChallenge2 - recChallenge1 < CURVE_N
    /\ Residue(recChallenge1) # Residue(recChallenge2)

\* C3 as stated: recovery returns the hex form of the key bytes passed to
\* signEOTS (here even in the regular case only).
C3_RecoversCallerKey ==
    RegularRecovery => result = Ok(BufferToHex(privateKey))

\* C3 amended: for plain messages whose challenges differ modulo n, the
\* recovery returns the hex form of the normalized key d' when the
\* denominator is positive (e2 - e1 < n), and of d' or n - d' otherwise; in
\* the first case that is the key passed to signEOTS exactly when d*G has an
\* even y.
C3_RecoversNormalizedKey ==
    pc = "recovered" /\ PlainMessage(message1) /\ PlainMessage(message2)
        /\ Residue(recChallenge1) # Residue(recChallenge2)
    => /\ result \in {Ok(ToHex(Normalized(keyInt))), Ok(ToHex(CURVE_N - Normalized(keyInt)))}
       /\ recChallenge2 - recChallenge1 < CURVE_N
            => /\ result = Ok(ToHex(Normalized(keyInt)))
               /\ (result = Ok(BufferToHex(privateKey))) <=> EvenY(keyInt)

\* a regular recovery returned n - d for a key d that was negated
C3_Witness ==
    /\ RegularRecovery
    /\ ~EvenY(keyInt)
    /\ result = Ok(ToHex(CURVE_N - keyInt))
    /\ Len(message1) # HexLen

\* C4: recoverPrivateKey with six 64-hex arguments and msg1Digest equal to
\* msg2Digest throws "challenges are equal"; it neither returns a key nor
\* gets to the modular inverse.
C4_Singularity ==
    pc = "recoverCalled" /\ recArgsHex /\ BufferFromHex(args[3]) = BufferFromHex(args[4])
    => result = Throw("Cannot recover key: challenges are equal")

\* the singular call with two different s
C4_Witness ==
    /\ pc = "recoverCalled"
    /\ recArgsHex
    /\ args[3] = args[4]
    /\ ParseHex(args[1]) # ParseHex(args[2])
    /\ result = Throw("Cannot recover key: challenges are equal")

\* C5: with three 64-hex arguments and s = 0 or s >= n, verifyEOTSSignature
\* returns false without an error, whatever the coordinates are.
C5_RangeBeforeDecompression ==
    pc = "verifyCalled" /\ Matches64Hex(args[1]) /\ Matches64Hex(args[2]) /\ Matches64Hex(args[4])
        /\ (ParseHex(args[4]) = 0 \/ ParseHex(args[4]) >= CURVE_N)
    => result = Ok(FALSE)

\* s = 0 with a public key x that is on no point of the curve
C5_Witness ==
    /\ pc = "verifyCalled"
    /\ Matches64Hex(args[1]) /\ Matches64Hex(args[2]) /\ Matches64Hex(args[4])
    /\ ParseHex(args[4]) = 0
    /\ \A y \in 0..(P_FIELD - 1) : ~IsOnCurve(ParseHex(args[1]), y)
    /\ result = Ok(FALSE)

\* C6: verifyEOTSSignature throws on the first of publicKey, publicNonce, s
\* that is not 64 hex digits of either case, naming it, and returns a boolean
\* only when all three match.
C6_FailsClosed ==
    pc = "verifyCalled" =>
        /\ ~Matches64Hex(args[1]) => result = Throw("Invalid public key format")
        /\ Matches64Hex(args[1]) /\ ~Matches64Hex(args[2])
            => result = Throw("Invalid public nonce format")
        /\ Matches64Hex(args[1]) /\ Matches64Hex(args[2]) /\ ~Matches64Hex(args[4])
            => result = Throw("Invalid signature format")
        /\ result.ok => Matches64Hex(args[1]) /\ Matches64Hex(args[2]) /\ Matches64Hex(args[4])

\* an upper-case public key passes, and of a bad nonce and a bad s the nonce is named
C6_Witness ==
    /\ pc = "verifyCalled"
    /\ args[1] \in UpperHex
    /\ ~Matches64Hex(args[2])
    /\ ~Matches64Hex(args[4])
    /\ result = Throw("Invalid public nonce format")

\* C7: whatever recoverPrivateKey returns is 64 hex digits encoding a scalar
\* of [0, n).
C7_RecoveredInRange ==
    pc = "recoverCalled" /\ result.ok
    => /\ Len(result.value) = HexLen
       /\ \A i \in 1..Len(result.value) : result.value[i] \in LowerChars
       /\ ParseHex(result.value) < CURVE_N

\* C8: once a signature verified, verifyEOTSSignature returns false, and
\* throws nothing, for any 64-hex s of another integer value.
C8_TamperedS ==
    pc = "tampered" /\ ParseHex(args[4]) # ParseHex(sig1.value.s)
    => tampered = Ok(FALSE)

\* an s of the valid range, and the negation of the signed s, were rejected
C8_Witness ==
    /\ pc = "tampered"
    /\ ParseHex(args[4]) = CURVE_N - ParseHex(sig1.value.s)
    /\ tampered = Ok(FALSE)

\* C9: the modInverse call of recoverPrivateKey, on a denominator that is
\* not 0 modulo the prime n, returns t in [0, n) with a * t = 1 modulo n.
C9_ModInverse ==
    pc = "recoverCalled" /\ recArgsHex /\ Residue(recChallenge1) # Residue(recChallenge2)
    => LET a == recoverDenominator(recChallenge1, recChallenge2)
           inv == modInverse(a, CURVE_N)
       IN  /\ inv.ok
           /\ 0 <= inv.value /\ inv.value < CURVE_N
           /\ Residue(a * inv.value) = 1

\* C10: the digest signEOTS and verifyEOTSSignature feed to the challenge
\* hash is 32 bytes, and both derive the same one.
C10_DigestIs32Bytes ==
    /\ (pc = "signed" /\ sig1.ok
            => Len(BufferFromHex(signMessageHash(message1))) = WordBytes)
    /\ (pc = "verified"
            => /\ Len(BufferFromHex(verifyMessageHash(args[3]))) = WordBytes
               /\ verifyMessageHash(args[3]) = signMessageHash(message1))

\* the point with the same x and the negated y
negate(A) == [x |-> A.x, y |-> FieldMod(0 - A.y)]

\* what steps 1 and 2 of signEOTS leave for the first signature
normKey == signStep1(privateKey)
normNonce == signStep2(nonce)

\* (scalar', point') is the even-y normalization of the scalar: point' is
\* scalar' * G with an even y and the x of scalar * G, and the pair is
\* (scalar, scalar * G) when that has an even y, (n - scalar, -(scalar * G))
\* otherwise
IsNormalizationOf(scalar, scalar2, point2) ==
    LET point == ScalarMul(BASE, scalar)
    IN  /\ ScalarMul(BASE, scalar2) = point2
        /\ IsOnCurve(point2.x, point2.y)
        /\ point2.y % 2 = 0
        /\ point2.x = point.x
        /\ IF point.y % 2 = 0
           THEN scalar2 = scalar /\ point2 = point
           ELSE scalar2 = CURVE_N - scalar /\ point2 = negate(point) /\ point2 # point

\* C11: for a key d and a nonce a in [1, n-1], steps 1-2 of signEOTS leave
\* (d', P') and (a', R') with d'*G = P', a'*G = R', P'.y and R'.y even, the
\* x of d*G and a*G, the pair unchanged (the key bytes too) when y was even
\* and (n - scalar, -point) otherwise; the signature publishes P'.x and R'.x,
\* its s is (a' + e*d') mod n, and the verifier's even-y decompression of
\* publicKey and publicNonce yields exactly P' and R'.
C11_EvenYNormalization ==
    pc \in {"signed", "verified"} /\ Len(privateKey) = WordBytes /\ Len(nonce) = WordBytes
        /\ InOrder(keyInt) /\ InOrder(nonceInt)
    => /\ normKey.ok /\ normNonce.ok /\ sig1.ok
       /\ LET d2 == BufferToInt(normKey.value.privateKey)
              P2 == normKey.value.P
              a2 == normNonce.value.a
              R2 == normNonce.value.R
          IN  /\ Len(normKey.value.privateKey) = WordBytes
              /\ IsNormalizationOf(keyInt, d2, P2)
              /\ IsNormalizationOf(nonceInt, a2, R2)
              /\ EvenY(keyInt) => normKey.value.privateKey = privateKey
              /\ sig1.value.publicKey = ToHex(P2.x)
              /\ sig1.value.publicNonce = ToHex(R2.x)
              /\ ParseHex(sig1.value.s) = Residue(a2 + sigChallenge * d2)
              /\ fromHexEven(sig1.value.publicKey) = Ok(P2)
              /\ fromHexEven(sig1.value.publicNonce) = Ok(R2)
              /\ pc = "verified" => args[1] = ToHex(P2.x) /\ args[2] = ToHex(R2.x)

\* a signature verified whose key was negated and whose nonce was kept
C11_Witness ==
    /\ pc = "verified"
    /\ result = Ok(TRUE)
    /\ ~EvenY(keyInt)
    /\ EvenY(nonceInt)
    /\ normKey.value.privateKey # privateKey
    /\ normNonce.value.a = nonceInt
    /\ fromHexEven(args[1]) = Ok(negate(ScalarMul(BASE, keyInt)))

====
